---- MODULE Spec2Model ----
(***************************************************************************)
(* Model of QualifyingComparer (src/src/telemetry_comparer.py): the state  *)
(* of one comparer object and its methods _load_session,                   *)
(* _merge_telemetries, _calculate_gap, _identify_team_colors,              *)
(* process_minisectors and process_telemetry.                              *)
(*                                                                         *)
(* A pandas data frame is a sequence of rows; a row is a record whose      *)
(* fields are the columns the frame has at that point.  A Python attribute *)
(* that may be None is a sequence of length at most one: None is << >>,    *)
(* a value v is << v >>.  Distances, speeds and times are integers (times  *)
(* in tenths of a second); quotients the code takes in floating point are  *)
(* taken exactly here (floor of the exact quotient, means compared by      *)
(* cross-multiplication).                                                  *)
(***************************************************************************)
EXTENDS Integers, Sequences, FiniteSets, TLC

VARIABLES driver_1, driver_2, session,
          laps_driver_1, laps_driver_2,
          fastest_driver_1, fastest_driver_2,
          telemetry_driver_1, telemetry_driver_2,
          __delta_time, __ref_tel,
          team_color_1, team_color_2,
          __telemetry, line_collection,
          last_n, err

vars == <<driver_1, driver_2, session, laps_driver_1, laps_driver_2,
          fastest_driver_1, fastest_driver_2,
          telemetry_driver_1, telemetry_driver_2, __delta_time, __ref_tel,
          team_color_1, team_color_2, __telemetry, line_collection,
          last_n, err>>

(* ---------------------------- bounds ----------------------------------- *)
\* most samples the two fastest laps have together in the segmentation
MaxSamples == 3
\* longest lap (number of samples) in the gap calculation
MaxLen == 2
\* largest distance value of a sample
MaxDist == 2
\* largest speed value of a sample
MaxSpeed == 2
\* largest lap time of a sample (tenths of a second)
MaxTime == 2
\* most laps a driver has in the session
MaxLaps == 1
\* largest segment count passed to process_minisectors
MaxN == 2

(* ---------------------------- values ----------------------------------- *)
None == << >>
Some(v) == << v >>

\* driver abbreviations, listed in the order Python compares strings
DriverOrder == << "LEC", "VER" >>
Drivers == { DriverOrder[i] : i \in 1..Len(DriverOrder) }

DriverRank(d) == CHOOSE i \in 1..Len(DriverOrder) : DriverOrder[i] = d

Max(a, b) == IF a >= b THEN a ELSE b

\* the non-decreasing sequences of length n over lo..hi
RECURSIVE NonDecreasing(_, _, _)
NonDecreasing(n, lo, hi) ==
    IF n = 0 THEN { << >> }
    ELSE UNION { { << v >> \o s : s \in NonDecreasing(n - 1, v, hi) } : v \in lo..hi }

\* the strictly increasing sequences of length n over lo..hi
RECURSIVE Increasing(_, _, _)
Increasing(n, lo, hi) ==
    IF n = 0 THEN { << >> }
    ELSE UNION { { << v >> \o s : s \in Increasing(n - 1, v + 1, hi) } : v \in lo..hi }

\* a fastest lap as the source adapter delivers it: one record per sample
MakeLap(ds, ss, ts) ==
    [ i \in 1..Len(ds) |-> [Distance |-> ds[i], Speed |-> ss[i], Time |-> ts[i]] ]

\* laps for the segmentation: distances increasing along the lap, any speeds
SegLaps ==
    UNION { { MakeLap(ds, ss, [i \in 1..n |-> i]) :
                ds \in Increasing(n, 0, MaxDist), ss \in [1..n -> 1..MaxSpeed] } :
            n \in 0..MaxSamples }

\* laps for the gap: distances strictly increasing, times non-decreasing
GapLaps ==
    UNION { { MakeLap(ds, [i \in 1..n |-> 1], ts) :
                ds \in Increasing(n, 0, MaxDist), ts \in NonDecreasing(n, 0, MaxTime) } :
            n \in 0..MaxLen }

Init ==
    /\ driver_1 \in Drivers
    /\ driver_2 \in Drivers \ {driver_1}
    /\ session = FALSE
    /\ laps_driver_1 = None
    /\ laps_driver_2 = None
    /\ fastest_driver_1 = None
    /\ fastest_driver_2 = None
    /\ telemetry_driver_1 = None
    /\ telemetry_driver_2 = None
    /\ __delta_time = None
    /\ __ref_tel = None
    /\ team_color_1 = None
    /\ team_color_2 = None
    /\ __telemetry = None
    /\ line_collection = None
    /\ last_n = None
    /\ err = "none"

(* ------------------------ _load_session -------------------------------- *)
\* Lap.get_telemetry(): the samples of lap k with their track position; the
\* i-th sample of lap k sits at (i, k), so every sample is recognisable
get_telemetry(lap, k) ==
    [ i \in 1..Len(lap) |->
        [Distance |-> lap[i].Distance, Speed |-> lap[i].Speed, X |-> i, Y |-> k] ]

\* laps1, laps2: the two drivers' laps of the session (rows with a Team);
\* lap1, lap2: their fastest laps
LoadSession(laps1, laps2, lap1, lap2) ==
    /\ session' = TRUE
    /\ laps_driver_1' = Some(laps1)
    /\ laps_driver_2' = Some(laps2)
    /\ fastest_driver_1' = Some(lap1)
    /\ fastest_driver_2' = Some(lap2)
    /\ telemetry_driver_1' = Some(get_telemetry(lap1, 1))
    /\ telemetry_driver_2' = Some(get_telemetry(lap2, 2))
    /\ last_n' = None
    /\ err' = "none"
    /\ UNCHANGED <<driver_1, driver_2, __delta_time, __ref_tel,
                   team_color_1, team_color_2, __telemetry, line_collection>>

(* ---------------------- _merge_telemetries ----------------------------- *)
\* frame["Driver"] = d : sets the column on every row, adding it if absent
SetDriver(rows, d) ==
    [ i \in 1..Len(rows) |->
        [Distance |-> rows[i].Distance, Speed |-> rows[i].Speed,
         X |-> rows[i].X, Y |-> rows[i].Y, Driver |-> d] ]

\* pd.concat([a, b])
concat(a, b) == a \o b

\* the merge with the two frames concatenated in the wrong order
Merge_reversed(tel1, tel2, d1, d2) ==
    [ tel1   |-> SetDriver(tel1, d1),
      tel2   |-> SetDriver(tel2, d2),
      merged |-> concat(SetDriver(tel2, d2), SetDriver(tel1, d1)) ]

\* the merge with the merged frame also bound to the first stored lap
Merge_aliased(tel1, tel2, d1, d2) ==
    [ tel1   |-> concat(SetDriver(tel1, d1), SetDriver(tel2, d2)),
      tel2   |-> SetDriver(tel2, d2),
      merged |-> concat(SetDriver(tel1, d1), SetDriver(tel2, d2)) ]

\* what _merge_telemetries leaves behind: the two stored laps, now tagged in
\* place, and the new frame that holds lap 1's rows followed by lap 2's
Merge(tel1, tel2, d1, d2) ==
    [ tel1   |-> SetDriver(tel1, d1),
      tel2   |-> SetDriver(tel2, d2),
      merged |-> concat(SetDriver(tel1, d1), SetDriver(tel2, d2)) ]

_merge_telemetries ==
    IF telemetry_driver_1 = None
    THEN \* None["Driver"] = ... raises before anything is stored
         /\ err' = "TypeError"
         /\ UNCHANGED <<driver_1, driver_2, session, laps_driver_1, laps_driver_2,
                        fastest_driver_1, fastest_driver_2, telemetry_driver_1,
                        telemetry_driver_2, __delta_time, __ref_tel, team_color_1,
                        team_color_2, __telemetry, line_collection, last_n>>
    ELSE LET m == Merge(telemetry_driver_1[1], telemetry_driver_2[1], driver_1, driver_2)
         IN  /\ telemetry_driver_1' = Some(m.tel1)
             /\ telemetry_driver_2' = Some(m.tel2)
             /\ __telemetry' = Some(m.merged)
             /\ last_n' = None
             /\ err' = "none"
             /\ UNCHANGED <<driver_1, driver_2, session, laps_driver_1, laps_driver_2,
                            fastest_driver_1, fastest_driver_2, __delta_time, __ref_tel,
                            team_color_1, team_color_2, line_collection>>

(* ---------------------- process_minisectors ---------------------------- *)
\* max(frame["Distance"]) of a frame with at least one row
total_distance(rows) ==
    CHOOSE d \in { rows[i].Distance : i \in 1..Len(rows) } :
        \A i \in 1..Len(rows) : rows[i].Distance <= d

\* int((dist // minisector_length) + 1) with minisector_length = total / n,
\* for total > 0 and n # 0: the floor of dist / (total / n), plus one
Minisector(dist, total, n) == ((dist * n) \div total) + 1

\* frame["Minisector"] = frame["Distance"].apply(...)
AssignMinisectors(rows, total, n) ==
    [ i \in 1..Len(rows) |->
        [Distance |-> rows[i].Distance, Speed |-> rows[i].Speed,
         X |-> rows[i].X, Y |-> rows[i].Y, Driver |-> rows[i].Driver,
         Minisector |-> Minisector(rows[i].Distance, total, n)] ]

RECURSIVE SumSpeed(_, _)
SumSpeed(rows, I) ==
    IF I = {} THEN 0
    ELSE LET i == CHOOSE j \in I : TRUE IN rows[i].Speed + SumSpeed(rows, I \ {i})

\* one record per (Minisector, Driver) group of groupby(...)["Speed"].mean():
\* the mean is kept as the pair sum, count
GroupRows(rows, m, d) ==
    { i \in 1..Len(rows) : rows[i].Minisector = m /\ rows[i].Driver = d }

MinisectorsOf(rows) == { rows[i].Minisector : i \in 1..Len(rows) }

DriversIn(rows, m) ==
    { rows[i].Driver : i \in { j \in 1..Len(rows) : rows[j].Minisector = m } }

average_speed(rows, m, d) ==
    [ sum |-> SumSpeed(rows, GroupRows(rows, m, d)),
      count |-> Cardinality(GroupRows(rows, m, d)) ]

\* a.sum / a.count > b.sum / b.count
MeanGreater(a, b) == a.sum * b.count > b.sum * a.count

\* idxmin in place of idxmax
fastest_driver_idxmin(rows, m) ==
    CHOOSE d \in DriversIn(rows, m) :
        /\ \A e \in DriversIn(rows, m) :
              ~ MeanGreater(average_speed(rows, m, d), average_speed(rows, m, e))
        /\ \A e \in DriversIn(rows, m) :
              DriverRank(e) < DriverRank(d)
                 => MeanGreater(average_speed(rows, m, e), average_speed(rows, m, d))

\* average_speed.groupby("Minisector")["Speed"].idxmax(): groupby sorts the
\* (Minisector, Driver) keys, idxmax takes the first row holding the maximum,
\* so of the drivers with the greatest mean the one that sorts first
fastest_driver(rows, m) ==
    CHOOSE d \in DriversIn(rows, m) :
        /\ \A e \in DriversIn(rows, m) :
              ~ MeanGreater(average_speed(rows, m, e), average_speed(rows, m, d))
        /\ \A e \in DriversIn(rows, m) :
              DriverRank(e) < DriverRank(d)
                 => MeanGreater(average_speed(rows, m, d), average_speed(rows, m, e))

\* Fastest_driver_int: 1 where the winner is driver_1, then 2 where it is
\* driver_2 (the second assignment overwrites the first)
fastest_driver_int(w, d1, d2) == IF w = d2 THEN 2 ELSE IF w = d1 THEN 1 ELSE 0

\* frame.merge(fastest_driver, on=["Minisector"]): an inner join, one output
\* row per pair of a frame row and a winner row with the same Minisector, in
\* the frame's order; winners lists the winner rows
JoinWinners(rows, winners, d1, d2) ==
    LET RowsFor(i) ==
            LET W == { w \in winners : w.Minisector = rows[i].Minisector }
            IN  IF W = {} THEN << >>
                ELSE LET w == CHOOSE x \in W : TRUE
                     IN << [Distance |-> rows[i].Distance, Speed |-> rows[i].Speed,
                            X |-> rows[i].X, Y |-> rows[i].Y, Driver |-> rows[i].Driver,
                            Minisector |-> rows[i].Minisector,
                            Fastest_driver |-> w.Fastest_driver,
                            Fastest_driver_int |->
                                fastest_driver_int(w.Fastest_driver, d1, d2)] >>
        F[k \in 0..Len(rows)] == IF k = 0 THEN << >> ELSE F[k - 1] \o RowsFor(k)
    IN  F[Len(rows)]

\* the winner rows: one per minisector that has samples
WinnerRows(rows) ==
    { [Minisector |-> m, Fastest_driver |-> fastest_driver(rows, m)] :
        m \in MinisectorsOf(rows) }

\* the frame left in the order of the join
sort_values_skipped(rows) == { rows }

\* frame.sort_values(by=["Distance"]): the default sort is not stable, so any
\* arrangement of the rows in non-decreasing Distance can result
RECURSIVE Arrangements(_, _)
Arrangements(rows, I) ==
    IF I = {} THEN { << >> }
    ELSE UNION { { << rows[i] >> \o s : s \in Arrangements(rows, I \ {i}) } :
                 i \in { j \in I : \A k \in I : rows[j].Distance <= rows[k].Distance } }

sort_values(rows) == Arrangements(rows, 1..Len(rows))

\* points[:-1] paired with points[:-1]: every line degenerates to a point
segments_same_slice(rows) ==
    [ i \in 1..Max(Len(rows) - 1, 0) |->
        << << rows[i].X, rows[i].Y >>, << rows[i].X, rows[i].Y >> >> ]

\* points[:-1] joined with points[1:]: one line per pair of neighbouring rows
segments(rows) ==
    [ i \in 1..Max(Len(rows) - 1, 0) |->
        << << rows[i].X, rows[i].Y >>, << rows[i + 1].X, rows[i + 1].Y >> >> ]

LineCollection(rows, c1, c2) ==
    [ segments |-> segments(rows),
      array    |-> [ i \in 1..Len(rows) |-> rows[i].Fastest_driver_int ],
      cmap     |-> << c1, c2 >> ]

\* the Team column of a driver's laps: every lap of a driver has his team
TeamLaps(team, k) == [ i \in 1..k |-> [Team |-> team] ]

\* segment counts passed to process_minisectors: the positive ones, and the
\* ones that are no count of segments (zero, negative)
SegmentCounts == 1..MaxN
BadSegmentCounts == { 0 - 1, 0 }

\* last_n records the call history the properties speak about: << >> unless
\* the last call that wrote __telemetry was a process_minisectors that ran to
\* its end; then its segment count, and whether the call before it was such
\* a call with the same count
Completed(n) == last_n # None /\ last_n[1].n = n

process_minisectors(num_minisectors) ==
    IF telemetry_driver_1 = None
    THEN \* _merge_telemetries raises: None["Driver"] = ...
         /\ err' = "TypeError"
         /\ UNCHANGED <<driver_1, driver_2, session, laps_driver_1, laps_driver_2,
                        fastest_driver_1, fastest_driver_2, telemetry_driver_1,
                        telemetry_driver_2, __delta_time, __ref_tel, team_color_1,
                        team_color_2, __telemetry, line_collection, last_n>>
    ELSE LET m == Merge(telemetry_driver_1[1], telemetry_driver_2[1], driver_1, driver_2)
             total == total_distance(m.merged)
             assigned == AssignMinisectors(m.merged, total, num_minisectors)
             joined == JoinWinners(assigned, WinnerRows(assigned), driver_1, driver_2)
         IN  /\ telemetry_driver_1' = Some(m.tel1)
             /\ telemetry_driver_2' = Some(m.tel2)
             /\ UNCHANGED <<driver_1, driver_2, session, laps_driver_1, laps_driver_2,
                            fastest_driver_1, fastest_driver_2, __delta_time, __ref_tel,
                            team_color_1, team_color_2>>
             /\ IF Len(m.merged) = 0
                THEN \* max() of an empty sequence
                     /\ err' = "ValueError"
                     /\ __telemetry' = Some(m.merged)
                     /\ last_n' = None
                     /\ UNCHANGED line_collection
                ELSE IF num_minisectors = 0 \/ total = 0
                THEN \* total_distance / 0, or dist // 0.0 inside apply
                     /\ err' = "ZeroDivisionError"
                     /\ __telemetry' = Some(m.merged)
                     /\ last_n' = None
                     /\ UNCHANGED line_collection
                ELSE \E sorted \in sort_values(joined) :
                     /\ err' = "none"
                     /\ __telemetry' = Some(sorted)
                     /\ line_collection' =
                            Some(LineCollection(sorted, team_color_1, team_color_2))
                     /\ last_n' = Some([n |-> num_minisectors, again |-> Completed(num_minisectors)])

(* ------------------ the segmentation pipeline -------------------------- *)
\* a comparer loads its session once (as main.py does)
_load_session ==
    /\ session = FALSE
    /\ \E lap1 \in SegLaps, lap2 \in SegLaps :
        /\ Len(lap1) + Len(lap2) <= MaxSamples
        /\ LoadSession(TeamLaps("Ferrari", 1), TeamLaps("Red Bull Racing", 1), lap1, lap2)

Next ==
    \/ _load_session
    \/ \E n \in SegmentCounts : process_minisectors(n)

Spec == Init /\ [][Next]_vars

(* ----------------- the merge alone, and bad segment counts ------------- *)
NextMerge ==
    \/ _load_session
    \/ _merge_telemetries

SpecMerge == Init /\ [][NextMerge]_vars

NextCounts ==
    \/ _load_session
    \/ \E n \in BadSegmentCounts : process_minisectors(n)

SpecCounts == Init /\ [][NextCounts]_vars

(* ------------------------- _calculate_gap ------------------------------ *)
\* fastf1.utils.delta_time pads the compared lap's distance and time streams
\* with one extrapolated sample at either end (mini_pro)
mini_pro(stream) ==
    << stream[1] - (stream[2] - stream[1]) >> \o stream
        \o << stream[Len(stream)] + (stream[Len(stream)] - stream[Len(stream) - 1]) >>

\* np.interp(d, xs, ts) - tref as the fraction num / den with den > 0: the
\* end values outside xs, the straight line between two neighbours inside
interp_delta(d, xs, ts, tref) ==
    IF d <= xs[1] THEN [num |-> ts[1] - tref, den |-> 1]
    ELSE IF d >= xs[Len(xs)] THEN [num |-> ts[Len(ts)] - tref, den |-> 1]
    ELSE LET i == CHOOSE k \in 1..(Len(xs) - 1) : xs[k] <= d /\ d < xs[k + 1]
             D == xs[i + 1] - xs[i]
         IN  [num |-> ts[i] * D + (ts[i + 1] - ts[i]) * (d - xs[i]) - tref * D,
              den |-> D]

\* fastf1.utils.delta_time(reference_lap, compare_lap): for every sample of
\* the reference lap, the compared lap's time at that distance minus the
\* reference lap's time; fails on a compared or reference lap too short to pad
delta_time(reference_lap, compare_lap) ==
    IF Len(compare_lap) < 2 \/ Len(reference_lap) = 0
    THEN [err |-> "IndexError", delta |-> << >>, ref |-> << >>]
    ELSE LET xs == mini_pro([i \in 1..Len(compare_lap) |-> compare_lap[i].Distance])
             ts == mini_pro([i \in 1..Len(compare_lap) |-> compare_lap[i].Time])
         IN  [err   |-> "none",
              delta |-> [ i \in 1..Len(reference_lap) |->
                            interp_delta(reference_lap[i].Distance, xs, ts,
                                         reference_lap[i].Time) ],
              ref   |-> [ i \in 1..Len(reference_lap) |->
                            [Distance |-> reference_lap[i].Distance,
                             Time |-> reference_lap[i].Time] ] ]

\* the two laps passed in the wrong order
calculate_gap_swapped(lap_1, lap_2) == delta_time(lap_2, lap_1)

\* delta_time(self.fastest_driver_1, self.fastest_driver_2)
calculate_gap(lap_1, lap_2) == delta_time(lap_1, lap_2)

_calculate_gap ==
    /\ UNCHANGED <<driver_1, driver_2, session, laps_driver_1, laps_driver_2,
                   fastest_driver_1, fastest_driver_2, telemetry_driver_1,
                   telemetry_driver_2, team_color_1, team_color_2, __telemetry,
                   line_collection, last_n>>
    /\ IF fastest_driver_1 = None
       THEN \* delta_time(None, None)
            /\ err' = "AttributeError"
            /\ UNCHANGED <<__delta_time, __ref_tel>>
       ELSE LET g == calculate_gap(fastest_driver_1[1], fastest_driver_2[1])
            IN  IF g.err # "none"
                THEN /\ err' = g.err
                     /\ UNCHANGED <<__delta_time, __ref_tel>>
                ELSE /\ err' = "none"
                     /\ __delta_time' = Some(g.delta)
                     /\ __ref_tel' = Some(g.ref)

(* ---------------------- _identify_team_colors -------------------------- *)
\* the teams of the session and the colour fastf1.plotting.team_color gives
TEAM_COLORS ==
    << <<"Mercedes", "#00d2be">>, <<"Ferrari", "#dc0000">>,
       <<"Red Bull Racing", "#0600ef">>, <<"McLaren", "#ff8700">>,
       <<"Alpine", "#0090ff">>, <<"Aston Martin", "#006f62">>,
       <<"Alfa Romeo", "#900000">>, <<"AlphaTauri", "#2b4562">>,
       <<"Haas F1 Team", "#ffffff">>, <<"Williams", "#005aff">> >>

Teams == { TEAM_COLORS[i][1] : i \in 1..Len(TEAM_COLORS) }

team_color(team) ==
    TEAM_COLORS[CHOOSE i \in 1..Len(TEAM_COLORS) : TEAM_COLORS[i][1] = team][2]

\* no fallback for team mates
second_color_shared(team_1, team_2) == team_color(team_2)

\* the colour of the second driver: his team's, or light grey when the two
\* drivers are team mates
second_color(team_1, team_2) ==
    IF team_1 # team_2 THEN team_color(team_2) ELSE "#D3D3D3"

\* laps["Team"].iloc[0] of both drivers, then the two colours
identify_team_colors(laps_1, laps_2) ==
    IF Len(laps_1) = 0 \/ Len(laps_2) = 0
    THEN [err |-> "IndexError", color_1 |-> "", color_2 |-> ""]
    ELSE [err |-> "none",
          color_1 |-> team_color(laps_1[1].Team),
          color_2 |-> second_color(laps_1[1].Team, laps_2[1].Team)]

_identify_team_colors ==
    /\ UNCHANGED <<driver_1, driver_2, session, laps_driver_1, laps_driver_2,
                   fastest_driver_1, fastest_driver_2, telemetry_driver_1,
                   telemetry_driver_2, __delta_time, __ref_tel, __telemetry,
                   line_collection, last_n>>
    /\ IF laps_driver_1 = None
       THEN \* None["Team"]
            /\ err' = "TypeError"
            /\ UNCHANGED <<team_color_1, team_color_2>>
       ELSE LET c == identify_team_colors(laps_driver_1[1], laps_driver_2[1])
            IN  IF c.err # "none"
                THEN /\ err' = c.err
                     /\ UNCHANGED <<team_color_1, team_color_2>>
                ELSE /\ err' = "none"
                     /\ team_color_1' = Some(c.color_1)
                     /\ team_color_2' = Some(c.color_2)

(* ------------------------ process_telemetry ---------------------------- *)
\* _load_session, _calculate_gap, _identify_team_colors in turn; an exception
\* ends the call and keeps what the earlier steps stored
process_telemetry(laps1, laps2, lap1, lap2) ==
    LET g == calculate_gap(lap1, lap2)
        c == identify_team_colors(laps1, laps2)
    IN  /\ session' = TRUE
        /\ laps_driver_1' = Some(laps1)
        /\ laps_driver_2' = Some(laps2)
        /\ fastest_driver_1' = Some(lap1)
        /\ fastest_driver_2' = Some(lap2)
        /\ telemetry_driver_1' = Some(get_telemetry(lap1, 1))
        /\ telemetry_driver_2' = Some(get_telemetry(lap2, 2))
        /\ last_n' = None
        /\ UNCHANGED <<driver_1, driver_2, __telemetry, line_collection>>
        /\ IF g.err # "none"
           THEN /\ err' = g.err
                /\ UNCHANGED <<__delta_time, __ref_tel, team_color_1, team_color_2>>
           ELSE /\ __delta_time' = Some(g.delta)
                /\ __ref_tel' = Some(g.ref)
                /\ IF c.err # "none"
                   THEN /\ err' = c.err
                        /\ UNCHANGED <<team_color_1, team_color_2>>
                   ELSE /\ err' = "none"
                        /\ team_color_1' = Some(c.color_1)
                        /\ team_color_2' = Some(c.color_2)

(* ----------------------- the gap pipeline ------------------------------ *)
load_gap_session ==
    /\ session = FALSE
    /\ \E lap1 \in GapLaps, lap2 \in GapLaps :
          LoadSession(TeamLaps("Ferrari", 1), TeamLaps("Red Bull Racing", 1), lap1, lap2)

NextGap ==
    \/ load_gap_session
    \/ _calculate_gap

SpecGap == Init /\ [][NextGap]_vars

(* ---------------------- the colour pipeline ---------------------------- *)
\* the lap both drivers drive in the colour pipeline
ColorLap == MakeLap(<< 0, 1 >>, << 1, 1 >>, << 0, 1 >>)

\* the laps a driver can have in the session: none, or up to MaxLaps of a team
SessionLaps == { TeamLaps(t, k) : t \in Teams, k \in 0..MaxLaps }

load_team_session ==
    /\ session = FALSE
    /\ \E laps1 \in SessionLaps, laps2 \in SessionLaps :
          LoadSession(laps1, laps2, ColorLap, ColorLap)

run_process_telemetry ==
    /\ session = FALSE
    /\ \E laps1 \in SessionLaps, laps2 \in SessionLaps :
          process_telemetry(laps1, laps2, ColorLap, ColorLap)

NextColors ==
    \/ load_team_session
    \/ _identify_team_colors
    \/ run_process_telemetry

SpecColors == Init /\ [][NextColors]_vars

(* ------------------------- properties ---------------------------------- *)
Frame == __telemetry[1]
Lap1 == fastest_driver_1[1]
Lap2 == fastest_driver_2[1]
Segmented == last_n # None
FrameTotal == total_distance(Frame)

\* C1 (as claimed): after process_minisectors has run to its end with a
\* segment count N > 0, every sample's segment id lies in 1..N and every
\* sample at the maximum distance of the merged set is in segment N.
C1_SegmentIdsWithinRange ==
    (Segmented /\ last_n[1].n > 0) =>
        \A i \in 1..Len(Frame) :
            /\ Frame[i].Minisector \in 1..last_n[1].n
            /\ Frame[i].Distance = FrameTotal => Frame[i].Minisector = last_n[1].n

\* C2 (as claimed): a call of process_minisectors with N <= 0 on a loaded
\* comparer with usable laps fails with ConfigurationError, assigns no
\* segment and produces no line collection.
C2_NonPositiveCountRejected ==
    [][ \A n \in BadSegmentCounts :
          (/\ telemetry_driver_1 # None
           /\ Len(telemetry_driver_1[1]) + Len(telemetry_driver_2[1]) >= 2
           /\ process_minisectors(n))
          => (/\ err' = "ConfigurationError"
              /\ last_n' = None
              /\ line_collection' = line_collection) ]_vars

\* C4: the frame _merge_telemetries stores has len(lap_1) + len(lap_2) rows,
\* lap_1's samples in their order tagged driver_1, then lap_2's samples in
\* their order tagged driver_2.
C4_MergeIsTaggedConcatenation ==
    (__telemetry # None /\ ~ Segmented) =>
        /\ Len(Frame) = Len(Lap1) + Len(Lap2)
        /\ \A i \in 1..Len(Lap1) :
              Frame[i] = [Distance |-> Lap1[i].Distance, Speed |-> Lap1[i].Speed,
                          X |-> i, Y |-> 1, Driver |-> driver_1]
        /\ \A j \in 1..Len(Lap2) :
              Frame[Len(Lap1) + j] =
                         [Distance |-> Lap2[j].Distance, Speed |-> Lap2[j].Speed,
                          X |-> j, Y |-> 2, Driver |-> driver_2]

C4_Witness ==
    /\ __telemetry # None /\ ~ Segmented /\ err = "none"
    /\ Len(Lap1) = 2 /\ Len(Lap2) = 1
    /\ Len(Frame) = 3

\* the samples of driver d in segment m of the segmented frame
SamplesOf(m, d) ==
    { i \in 1..Len(Frame) : Frame[i].Minisector = m /\ Frame[i].Driver = d }
SpeedSum(m, d) == SumSpeed(Frame, SamplesOf(m, d))

C6_OneLinePerNeighbourPair ==
    Segmented =>
        /\ line_collection # None
        /\ Len(line_collection[1].segments) = Len(Frame) - 1
        /\ \A i \in 1..(Len(Frame) - 1) :
              line_collection[1].segments[i] =
                  << << Frame[i].X, Frame[i].Y >>, << Frame[i + 1].X, Frame[i + 1].Y >> >>

C6_Witness ==
    /\ Segmented
    /\ Len(Frame) = 3
    /\ Len(line_collection[1].segments) = 2
    /\ Frame[1].Y # Frame[2].Y

\* the winner of every segment of the segmented frame
Winners(rows) ==
    { << rows[i].Minisector, rows[i].Fastest_driver >> : i \in 1..Len(rows) }

\* C8: every call made after a completed process_minisectors is again a
\* process_minisectors call on the same laps; it completes, and when it repeats
\* the segment count of the call before it, it yields the same winner for
\* every segment.
C8_WinnersRepeat ==
    [][ Segmented =>
          /\ err' = "none"
          /\ last_n' # None
          /\ last_n'[1].again <=> last_n'[1].n = last_n[1].n
          /\ last_n'[1].again => Winners(Frame') = Winners(Frame) ]_vars

\* a repeated call on a frame with a segment where the two means tie
C8_Witness ==
    /\ Segmented /\ last_n[1].again
    /\ \E i \in 1..Len(Frame) :
          LET m == Frame[i].Minisector
          IN  /\ SamplesOf(m, driver_1) # {} /\ SamplesOf(m, driver_2) # {}
              /\ SpeedSum(m, driver_1) * Cardinality(SamplesOf(m, driver_2))
                    = SpeedSum(m, driver_2) * Cardinality(SamplesOf(m, driver_1))

\* C10: the frame handed to the line construction holds every merged sample
\* exactly once and is in non-decreasing Distance order.
C10_JoinedFrameSortedAndComplete ==
    Segmented =>
        /\ Len(Frame) = Len(Lap1) + Len(Lap2)
        /\ \A i \in 1..(Len(Frame) - 1) : Frame[i].Distance <= Frame[i + 1].Distance
        /\ \A i \in 1..Len(Lap1) :
              \E j \in 1..Len(Frame) :
                  /\ Frame[j].X = i /\ Frame[j].Y = 1 /\ Frame[j].Driver = driver_1
                  /\ Frame[j].Distance = Lap1[i].Distance /\ Frame[j].Speed = Lap1[i].Speed
        /\ \A i \in 1..Len(Lap2) :
              \E j \in 1..Len(Frame) :
                  /\ Frame[j].X = i /\ Frame[j].Y = 2 /\ Frame[j].Driver = driver_2
                  /\ Frame[j].Distance = Lap2[i].Distance /\ Frame[j].Speed = Lap2[i].Speed

\* the two laps interleave: the sorted frame is not the concatenation
C10_Witness ==
    /\ Segmented
    /\ Len(Frame) = 3
    /\ Frame[1].Y = 2 /\ Frame[2].Y = 1 /\ Frame[3].Y = 2
    /\ Frame[1].Distance < Frame[2].Distance /\ Frame[2].Distance < Frame[3].Distance

\* C3 (as claimed): with an empty lap, _merge_telemetries and _calculate_gap
\* fail with DataUnavailable and store nothing.
C3_EmptyLapRejected ==
    [][ (/\ telemetry_driver_1 # None
         /\ (Len(telemetry_driver_1[1]) = 0 \/ Len(telemetry_driver_2[1]) = 0))
        => /\ _merge_telemetries
                => (err' = "DataUnavailable" /\ __telemetry' = __telemetry)
           /\ _calculate_gap
                => (err' = "DataUnavailable" /\ __delta_time' = __delta_time) ]_vars

\* C7: once the colours are resolved for two team mates, the two colours
\* differ: the second is the light grey fallback, not the team's colour.
C7_TeamMatesGetDistinctColors ==
    (/\ team_color_1 # None /\ team_color_2 # None
     /\ laps_driver_1[1][1].Team = laps_driver_2[1][1].Team)
    => /\ team_color_1[1] # team_color_2[1]
       /\ team_color_1[1] = team_color(laps_driver_1[1][1].Team)
       /\ team_color_2[1] = "#D3D3D3"

C7_Witness ==
    /\ team_color_1 # None /\ team_color_2 # None
    /\ laps_driver_1[1][1].Team = "Haas F1 Team"
    /\ laps_driver_2[1][1].Team = "Haas F1 Team"

GapCurve == __delta_time[1]

\* C9: the gap curve has one value per sample of driver_1's lap, over that
\* lap's distances; where driver_2 has a sample at the same distance the
\* value is driver_2's time minus driver_1's, so negative exactly when
\* driver_2 got there in less time; and between two of driver_2's samples
\* that are both earlier (later) than driver_1 the value is negative (positive).
C9_GapSignAndAxis ==
    __delta_time # None =>
        /\ Len(GapCurve) = Len(Lap1)
        /\ Len(__ref_tel[1]) = Len(Lap1)
        /\ \A i \in 1..Len(Lap1) :
              /\ __ref_tel[1][i].Distance = Lap1[i].Distance
              /\ GapCurve[i].den > 0
              /\ \A j \in 1..Len(Lap2) :
                    Lap2[j].Distance = Lap1[i].Distance =>
                        /\ GapCurve[i].num = (Lap2[j].Time - Lap1[i].Time) * GapCurve[i].den
                        /\ GapCurve[i].num < 0 <=> Lap2[j].Time < Lap1[i].Time
              /\ \A j \in 1..(Len(Lap2) - 1) :
                    (Lap2[j].Distance <= Lap1[i].Distance
                        /\ Lap1[i].Distance <= Lap2[j + 1].Distance) =>
                        /\ (Lap2[j].Time < Lap1[i].Time /\ Lap2[j + 1].Time < Lap1[i].Time)
                              => GapCurve[i].num < 0
                        /\ (Lap2[j].Time > Lap1[i].Time /\ Lap2[j + 1].Time > Lap1[i].Time)
                              => GapCurve[i].num > 0

\* both laps end at the same distance, driver_2 one time unit earlier
C9_Witness ==
    /\ __delta_time # None
    /\ Len(Lap1) = 2 /\ Len(Lap2) = 2
    /\ Lap1[1].Distance = 0 /\ Lap1[1].Time = 0
    /\ Lap2[1].Distance = 0 /\ Lap2[1].Time = 0
    /\ Lap1[2].Distance = Lap2[2].Distance
    /\ Lap1[2].Time = 2 /\ Lap2[2].Time = 1
    /\ GapCurve[2] = [num |-> 0 - 1, den |-> 1]

====
